---- MODULE Spec2Model ----
(***************************************************************************)
(* Model of vllm-finetune-middleware: the fine-tuning job router           *)
(* (routers/fine_tuning.py: JOBS, STATUS_MAP, create_job, retrieve_job,    *)
(* cancel_job, job_daemon) and the request interception middleware         *)
(* (middlewares.py: resolve_route, FineTuningMiddleware._forward_to_app).  *)
(*                                                                         *)
(* asyncio is cooperative: a coroutine runs without interleaving between   *)
(* two awaits that really suspend (the httpx calls and asyncio.sleep), so  *)
(* every action below is the code between two such suspension points.      *)
(***************************************************************************)
EXTENDS Integers, Sequences, FiniteSets, TLC

\* ------------------------------------------------------------- bounds ----
MaxTime == 1
NumClients == 1
MaxEvents == 3
MaxRoutes == 3
MaxSubmissions == 2

\* ---------------------------------------------------------- vocabulary ----
JobIds == {"abc123"}
Clients == 1..NumClients

None == "None"
NoTime == -1

\* fine_tuning.py:49-56
STATUS_MAP ==
    [s \in {"IN_QUEUE", "COMPLETED", "IN_PROGRESS", "CANCELLED", "FAILED", "TIMED_OUT"} |->
        CASE s = "IN_QUEUE" -> "queued"
          [] s = "COMPLETED" -> "succeeded"
          [] s = "IN_PROGRESS" -> "running"
          [] s = "CANCELLED" -> "cancelled"
          [] s = "FAILED" -> "failed"
          [] s = "TIMED_OUT" -> "failed"]

\* The statuses a remote runner can report: the RunPod vocabulary, RUNNING
\* (set by the bundled runner, dev.py:51) and one string of no vocabulary.
RemoteStatuses ==
    {"IN_QUEUE", "RUNNING", "IN_PROGRESS", "COMPLETED", "CANCELLED", "FAILED",
     "TIMED_OUT", "BOGUS"}

\* The remote has no such job (expired or never known): it answers 404.
Gone == "GONE"

NoResp == [code |-> 0, status |-> None, error |-> FALSE]

\* dev.py:26-27: an error accompanies a failed job.
ErrFlags(s) == IF s \in {"FAILED", "TIMED_OUT"} THEN BOOLEAN ELSE {FALSE}

\* The answers the remote runner can give to GET /status/{id} and to
\* POST /cancel/{id} while its own state for the job is rs.
Answers(rs) ==
    IF rs = Gone
    THEN {[code |-> 404, status |-> None, error |-> FALSE]}
    ELSE {[code |-> 500, status |-> None, error |-> FALSE]}
         \cup {[code |-> 200, status |-> rs, error |-> e] : e \in ErrFlags(rs)}

\* Every answer of a remote runner of unknown behaviour.
AllAnswers == UNION {Answers(rs) : rs \in RemoteStatuses \cup {Gone}}

\* The answers of the remote runner to POST /run: an acceptance (whose body
\* holds the id), two errors, and a redirect, whose body is not JSON (httpx does
\* not follow redirects unless asked to).
RunAccepted == [code |-> 200, text |-> "{id}"]
RunAnswers ==
    {RunAccepted, [code |-> 401, text |-> "unauthorized"],
     [code |-> 500, text |-> "internal error"], [code |-> 308, text |-> "moved"]}

\* The method type of a submission: the one the worker is configured for by
\* default (worker.py:40-41) and one it is not.
MethodTypes == {"supervised", "dpo"}
ConfiguredMethods == {"supervised"}

Suffixes == {<<>>, <<"v", ".", "1">>}
TempNames == {<<"x", "7">>}

VARIABLES
    JOBS,          \* keys of the JOBS dict
    job_read,      \* the JobRead object of each job id (alive while referenced)
    now,           \* int(time.time())
    remote,        \* the remote runner's own state of each job
    daemon,        \* job_daemon task of each job: position, local `job`, response
    client,        \* public API requests in flight
    last,          \* the request or poll that ended in the latest step, and how
    artifacts_url, \* os.getenv("AWS_ARTIFACTS_URL")
    send_queue,    \* _forward_to_app: captured messages
    response_started,
    fwd,           \* _forward_to_app: position and returned response
    routes,        \* resolve_route: the nested route table of the embedded application
    found,         \* resolve_route: how the call ended
    mw,            \* dispatch: position, and how often each path was invoked
    dev_JOBS,      \* dev.py JOBS: the status of each job of the bundled runner
    JOB_TASKS,     \* dev.py JOB_TASKS: the job ids that have an entry
    task,          \* dev.py: the asyncio task of each job
    JOB_QUEUE_LOCK, \* dev.py: the asyncio.Lock (locked, waiters in order)
    ready          \* the event loop's queue of callbacks that are ready to run

jobVars == <<JOBS, job_read, now, remote, daemon, client, last, artifacts_url>>
fwdVars == <<send_queue, response_started, fwd>>
routeVars == <<routes, found, mw>>
devVars == <<dev_JOBS, JOB_TASKS, task, JOB_QUEUE_LOCK, ready>>
vars == <<jobVars, fwdVars, routeVars, devVars>>

\* ------------------------------------------------ fine_tuning.py: data ----
NoModel == <<>>

\* JobRead (fine_tuning.py:36-44), the fields the router ever writes.  The
\* submission fields are immutable; the one the router reads back, suffix, is
\* an input of the step that reads it (fine_tuning.py:104).
NewJobRead ==
    [status |-> "queued", finished_at |-> NoTime, fine_tuned_model |-> NoModel,
     error |-> None]

Terminal == {"succeeded", "failed", "cancelled"}

\* STATUS_MAP[body["status"]] (fine_tuning.py:189): a KeyError for a key the
\* dict does not hold.
MapStatusDefault(s) == IF s \in DOMAIN STATUS_MAP THEN STATUS_MAP[s] ELSE "failed"
MapStatus(s) == IF s \in DOMAIN STATUS_MAP THEN STATUS_MAP[s] ELSE "KeyError"

\* How retrieve_job ends once the remote has answered r (fine_tuning.py:180-197).
RetrieveOutcome(j, r) ==
    IF r.code = 404 THEN "NotFound"
    ELSE IF r.code >= 400 THEN "HTTPError"
    ELSE IF j \notin JOBS THEN "KeyError:JOBS"
    ELSE IF MapStatus(r.status) = "KeyError" THEN "KeyError:STATUS_MAP"
    ELSE "job"

\* finished_at after the status was set to st at time t (fine_tuning.py:191-192).
FinishedAt(old, st, t) == IF st \in Terminal THEN t ELSE old

\* The JobRead object after fine_tuning.py:188-195 ran on answer r.
Updated(jr, r) ==
    LET st == MapStatus(r.status) IN
    [jr EXCEPT !.status = st,
               !.finished_at = FinishedAt(jr.finished_at, st, now),
               !.error = IF r.error THEN "error" ELSE jr.error]

\* JOBS after retrieve_job handled a 404 (fine_tuning.py:180-182, 87-90).
PopKeep(keys, j) == keys
Pop(keys, j) == keys \ {j}

\* JOBS and the JobRead objects after retrieve_job(j) resumed on answer r.
RetrieveJobs(j, r) ==
    IF RetrieveOutcome(j, r) = "NotFound" THEN Pop(JOBS, j) ELSE JOBS
RetrieveObjs(j, r) ==
    IF RetrieveOutcome(j, r) = "job"
    THEN [job_read EXCEPT ![j] = Updated(job_read[j], r)]
    ELSE job_read

\* os.path.basename(tempdir) for tempfile.mkdtemp(prefix=prefix)
\* (fine_tuning.py:104-107): prefix, then the allocator's random part.
TempBase(suffix, rnd) ==
    (IF suffix # <<>> THEN <<"f", "t", ".">> \o suffix \o <<".">> ELSE <<"f", "t", ".">>) \o rnd

\* .replace(".", ":") (fine_tuning.py:112)
ModelName(base) == [i \in DOMAIN base |-> IF base[i] = "." THEN ":" ELSE base[i]]

\* GET /fine_tuning/jobs (fine_tuning.py:161-163): the stored jobs.
list_jobs == JOBS

\* ------------------------------------------- fine_tuning.py: operations ----
\* What a request or the daemon saw in the answer it resumed on: the HTTP
\* code, and for a 2xx answer whose status is no key of STATUS_MAP, that
\* status (the argument of the KeyError).
Polled(r) ==
    IF r.code = 404 THEN "404"
    ELSE IF r.code >= 400 THEN "500"
    ELSE IF r.status \in DOMAIN STATUS_MAP THEN "200"
    ELSE r.status

\* A request in flight: its position, its job id and the remote's answer once
\* it is there.
IdleClient == [pc |-> "idle", job |-> None, resp |-> NoResp]

\* The daemon task: its position, whether its local `job` is assigned, the
\* remote's answer once it is there, and what ended it (the logged reason).
NoDaemon == [pc |-> "none", bound |-> FALSE, resp |-> NoResp, failed |-> None]

\* The end of a request (op create, get, cancel) or of a daemon poll (op poll):
\* the job, what the answer held (Polled) and how it ended (result).
Ended(op, j, polled, result) ==
    [op |-> op, job |-> j, polled |-> polled, result |-> result,
     status_code |-> 0, detail |-> None, method |-> None]

\* raise HTTPException(status_code=resp.status_code, detail=resp.text)
\* (fine_tuning.py:144)
HTTPException(op, status_code, detail) ==
    [Ended(op, None, None, "HTTPError") EXCEPT !.status_code = status_code, !.detail = detail]

\* resp.is_error: a 4xx or 5xx code.
is_error(r) == r.code >= 400 /\ r.code <= 599
NoEvent == Ended(None, None, None, None)

\* time.time() advances.
Tick ==
    /\ now < MaxTime
    /\ now' = now + 1
    /\ last' = NoEvent
    /\ UNCHANGED <<JOBS, job_read, remote, daemon, client, artifacts_url>>

\* POST /fine_tuning/jobs (fine_tuning.py:126-158).  The remote's answer r to
\* /run is its only input: an error answer raises HTTPException, an answer
\* without a JSON body fails in resp.json(), an acceptance carries the id j the
\* remote assigned (never one it assigned before), spawns the daemon and
\* stores the record as queued.
\* method_type is the method type of the submission, which create_job posts
\* to the remote as it came (fine_tuning.py:136) and reads nowhere.
create_job(j, r, method_type) ==
    /\ daemon[j].pc = "none"
    /\ IF is_error(r)
       THEN /\ last' = [HTTPException("create", r.code, r.text) EXCEPT !.method = method_type]
            /\ UNCHANGED <<JOBS, job_read, daemon, remote>>
       ELSE IF r # RunAccepted
       THEN /\ last' = [Ended("create", None, None, "JSONDecodeError") EXCEPT !.method = method_type]
            /\ UNCHANGED <<JOBS, job_read, daemon, remote>>
       ELSE /\ JOBS' = JOBS \cup {j}
            /\ job_read' = [job_read EXCEPT ![j] = NewJobRead]
            /\ daemon' = [daemon EXCEPT ![j].pc = "sleep"]
            /\ remote' = [remote EXCEPT ![j] = "IN_QUEUE"]
            /\ last' = [Ended("create", j, None, "job") EXCEPT !.method = method_type]
    /\ UNCHANGED <<now, client, artifacts_url>>

\* The remote runner answers the daemon's pending GET /status/{id} with r.
RemoteAnswerDaemon(j, r) ==
    /\ daemon[j].pc = "poll"
    /\ daemon[j].resp = NoResp
    /\ daemon' = [daemon EXCEPT ![j].resp = r]
    /\ last' = NoEvent
    /\ UNCHANGED <<JOBS, job_read, now, remote, client, artifacts_url>>

\* The remote runner answers a client request's pending call with r.
RemoteAnswerClient(c, r) ==
    /\ client[c].pc \in {"get", "cancel"}
    /\ client[c].resp = NoResp
    /\ client' = [client EXCEPT ![c].resp = r]
    /\ last' = NoEvent
    /\ UNCHANGED <<JOBS, job_read, now, remote, daemon, artifacts_url>>

\* GET /fine_tuning/jobs/{id}, up to the await of the remote call
\* (fine_tuning.py:167-178).
retrieve_job_begin(c, j) ==
    /\ client[c].pc = "idle"
    /\ IF j \notin JOBS
       THEN last' = Ended("get", j, None, "NotFound") /\ UNCHANGED client
       ELSE /\ client' = [client EXCEPT ![c] = [IdleClient EXCEPT !.pc = "get", !.job = j]]
            /\ last' = NoEvent
    /\ UNCHANGED <<JOBS, job_read, now, remote, daemon, artifacts_url>>

\* GET /fine_tuning/jobs/{id}, from the remote's answer r on (fine_tuning.py:180-197).
retrieve_job_resume(c, r) ==
    /\ client[c].pc = "get"
    /\ LET j == client[c].job
       IN /\ JOBS' = RetrieveJobs(j, r)
          /\ job_read' = RetrieveObjs(j, r)
          /\ client' = [client EXCEPT ![c] = IdleClient]
          /\ last' = Ended("get", j, Polled(r), RetrieveOutcome(j, r))
    /\ UNCHANGED <<now, remote, daemon, artifacts_url>>

\* POST /fine_tuning/jobs/{id}/cancel, up to the await (fine_tuning.py:201-212).
cancel_job_begin(c, j) ==
    /\ client[c].pc = "idle"
    /\ IF j \notin JOBS
       THEN last' = Ended("cancel", j, None, "NotFound") /\ UNCHANGED client
       ELSE /\ client' = [client EXCEPT ![c] = [IdleClient EXCEPT !.pc = "cancel", !.job = j]]
            /\ last' = NoEvent
    /\ UNCHANGED <<JOBS, job_read, now, remote, daemon, artifacts_url>>

\* How cancel_job ends on the remote's answer r (fine_tuning.py:214-217).
CancelOutcome(j, r) ==
    IF r.code >= 400 THEN "HTTPError"
    ELSE IF j \notin JOBS THEN "KeyError:JOBS"
    ELSE "job"

\* POST /fine_tuning/jobs/{id}/cancel, from the remote's answer r on.
cancel_job_resumeMarking(c, r) ==
    /\ client[c].pc = "cancel"
    /\ client' = [client EXCEPT ![c] = IdleClient]
    /\ last' = Ended("cancel", client[c].job, Polled(r), CancelOutcome(client[c].job, r))
    /\ job_read' = IF CancelOutcome(client[c].job, r) = "job"
                   THEN [job_read EXCEPT ![client[c].job].status = "cancelled"]
                   ELSE job_read
    /\ UNCHANGED <<JOBS, now, remote, daemon, artifacts_url>>
cancel_job_resume(c, r) ==
    /\ client[c].pc = "cancel"
    /\ client' = [client EXCEPT ![c] = IdleClient]
    /\ last' = Ended("cancel", client[c].job, Polled(r), CancelOutcome(client[c].job, r))
    /\ UNCHANGED <<JOBS, job_read, now, remote, daemon, artifacts_url>>

\* ------------------------------------------- fine_tuning.py: job_daemon ----
\* What the local filesystem and the object store do to the artifact stage.
StageEnv == {"ok", "mkdtemp", "download"}

\* The artifact stage up to the await of the load call (fine_tuning.py:98-119),
\* entered with the stored keys and the JobRead objects objs: the daemon's
\* next position, the step that raised (if one did) and the objects afterwards.
ArtifactStageFlap(j, keys, objs, env, sfx, rnd) ==
    IF artifacts_url = None THEN [pc |-> "stopped", failed |-> None, objs |-> objs]
    ELSE IF j \notin keys THEN [pc |-> "artifact_error", failed |-> "lookup", objs |-> objs]
    ELSE IF env # "ok"
         THEN [pc |-> "artifact_error", failed |-> env,
               objs |-> [objs EXCEPT ![j].status = "failed", ![j].error = "error"]]
    ELSE [pc |-> "load", failed |-> None,
          objs |-> [objs EXCEPT ![j].fine_tuned_model = ModelName(TempBase(sfx, rnd))]]
ArtifactStageEarly(j, keys, objs, env, sfx, rnd) ==
    IF artifacts_url = None THEN [pc |-> "stopped", failed |-> None, objs |-> objs]
    ELSE IF j \notin keys THEN [pc |-> "artifact_error", failed |-> "lookup", objs |-> objs]
    ELSE IF env = "mkdtemp" THEN [pc |-> "artifact_error", failed |-> env, objs |-> objs]
    ELSE [pc |-> IF env = "ok" THEN "load" ELSE "artifact_error",
          failed |-> IF env = "ok" THEN None ELSE env,
          objs |-> [objs EXCEPT ![j].fine_tuned_model = ModelName(TempBase(sfx, rnd))]]
ArtifactStage(j, keys, objs, env, sfx, rnd) ==
    IF artifacts_url = None THEN [pc |-> "stopped", failed |-> None, objs |-> objs]
    ELSE IF j \notin keys THEN [pc |-> "artifact_error", failed |-> "lookup", objs |-> objs]
    ELSE IF env # "ok" THEN [pc |-> "artifact_error", failed |-> env, objs |-> objs]
    ELSE [pc |-> "load", failed |-> None,
          objs |-> [objs EXCEPT ![j].fine_tuned_model = ModelName(TempBase(sfx, rnd))]]

\* The tests on job.status that follow a poll (fine_tuning.py:92-96), `job`
\* being the JobRead object itself, and the artifact stage behind the break.
AfterPollKeepsPolling(j, keys, objs, env, sfx, rnd) ==
    IF objs[j].status = "failed"
    THEN [pc |-> "stopped", failed |-> None, objs |-> objs]
    ELSE IF objs[j].status = "succeeded" THEN ArtifactStage(j, keys, objs, env, sfx, rnd)
    ELSE [pc |-> "sleep", failed |-> None, objs |-> objs]
AfterPoll(j, keys, objs, env, sfx, rnd) ==
    IF objs[j].status \in {"failed", "cancelled"}
    THEN [pc |-> "stopped", failed |-> None, objs |-> objs]
    ELSE IF objs[j].status = "succeeded" THEN ArtifactStage(j, keys, objs, env, sfx, rnd)
    ELSE [pc |-> "sleep", failed |-> None, objs |-> objs]

\* asyncio.sleep(5) is over and retrieve_job runs up to its await
\* (fine_tuning.py:81-85, 167-178); a record already gone is the 404 of
\* fine_tuning.py:169, which ends the daemon (87-90).
job_daemon_poll(j) ==
    /\ daemon[j].pc = "sleep"
    /\ IF j \notin JOBS
       THEN /\ daemon' = [daemon EXCEPT ![j].pc = "stopped", ![j].failed = "NotFound"]
            /\ last' = Ended("poll", j, None, "NotFound")
       ELSE /\ daemon' = [daemon EXCEPT ![j].pc = "poll", ![j].resp = NoResp]
            /\ last' = NoEvent
    /\ UNCHANGED <<JOBS, job_read, now, remote, client, artifacts_url>>

\* The daemon resumes on the remote's answer r: the rest of retrieve_job, the
\* except clause, the tests on job.status and, behind the break, the artifact
\* stage up to its await (fine_tuning.py:85-119).
job_daemon_resume(j, r, env, sfx, rnd) ==
    /\ daemon[j].pc = "poll"
    /\ LET out == RetrieveOutcome(j, r)
           keys == RetrieveJobs(j, r)
           objs == RetrieveObjs(j, r)
           next == AfterPoll(j, keys, objs, env, sfx, rnd)
       IN /\ last' = Ended("poll", j, Polled(r), out)
          /\ CASE out = "NotFound" ->
                 /\ JOBS' = Pop(keys, j)
                 /\ job_read' = objs
                 /\ daemon' = [daemon EXCEPT ![j].pc = "stopped", ![j].resp = NoResp,
                                             ![j].failed = "NotFound"]
            [] out \in {"KeyError:JOBS", "KeyError:STATUS_MAP"} ->
                 /\ daemon' = [daemon EXCEPT ![j].pc = "crashed", ![j].resp = NoResp,
                                             ![j].failed = out]
                 /\ UNCHANGED <<JOBS, job_read>>
            [] out = "HTTPError" /\ ~daemon[j].bound ->
                 \* `job` was never assigned: UnboundLocalError at line 92
                 /\ daemon' = [daemon EXCEPT ![j].pc = "crashed", ![j].resp = NoResp,
                                             ![j].failed = "UnboundLocalError"]
                 /\ UNCHANGED <<JOBS, job_read>>
            [] OTHER ->
                 /\ JOBS' = keys
                 /\ job_read' = next.objs
                 /\ daemon' = [daemon EXCEPT ![j].pc = next.pc, ![j].bound = TRUE,
                                             ![j].resp = NoResp, ![j].failed = next.failed]
    /\ UNCHANGED <<now, remote, client, artifacts_url>>

\* POST /v1/load_lora_adapter answered and raise_for_status passed or raised
\* (fine_tuning.py:115-123).
job_daemon_loaded(j, ok) ==
    /\ daemon[j].pc = "load"
    /\ daemon' = [daemon EXCEPT ![j].pc = IF ok THEN "loaded" ELSE "artifact_error",
                                ![j].failed = IF ok THEN None ELSE "load"]
    /\ last' = NoEvent
    /\ UNCHANGED <<JOBS, job_read, now, remote, client, artifacts_url>>

\* The poll's resumption goes on into the artifact stage (fine_tuning.py:95-103):
\* only then are the filesystem, the object store and the suffix read.
EntersStage(j, r) ==
    /\ artifacts_url # None
    /\ RetrieveOutcome(j, r) \in {"job", "HTTPError"}
    /\ j \in JOBS
    /\ RetrieveObjs(j, r)[j].status = "succeeded"

StageInputs(j, r) ==
    IF EntersStage(j, r)
    THEN {<<"ok", sfx>> : sfx \in Suffixes} \cup {<<e, <<>>>> : e \in StageEnv \ {"ok"}}
    ELSE {<<"ok", <<>>>>}

\* The answers to POST /cancel/{id}, of which cancel_job reads the code only.
CancelAnswers == {r \in AllAnswers : r.status \in {None, "CANCELLED"} /\ ~r.error}

\* How a call of resolve_route ended: not called yet, returned None, raised
\* KeyError; a positive number is the route returned.
NotCalled == -1
NoRoute == 0
RaisedKeyError == -2

\* The bundled runner (dev.py) before any submission.
DevIds == 1..MaxSubmissions
NoTask == [pc |-> "none", must_cancel |-> FALSE, fut |-> None, outcome |-> None]
DevInit ==
    /\ dev_JOBS = [i \in DevIds |-> "absent"]
    /\ JOB_TASKS = {}
    /\ task = [i \in DevIds |-> NoTask]
    /\ JOB_QUEUE_LOCK = [locked |-> FALSE, waiters |-> <<>>]
    /\ ready = <<>>

\* dispatch before a request: neither the embedded application nor call_next
\* has been invoked.
IdleDispatch == [pc |-> "idle", app |-> 0, call_next |-> 0]

\* ------------------------------------------------------ specification ----
IdleMiddleware ==
    /\ send_queue = <<>>
    /\ response_started = FALSE
    /\ fwd = [pc |-> "idle", status_code |-> 0, body |-> <<>>]
    /\ routes = <<>>
    /\ found = NotCalled
    /\ mw = IdleDispatch

JobsInit ==
    /\ JOBS = {}
    /\ job_read = [j \in JobIds |-> NewJobRead]
    /\ now = 0
    /\ remote = [j \in JobIds |-> Gone]
    /\ daemon = [j \in JobIds |-> NoDaemon]
    /\ client = [c \in Clients |-> IdleClient]
    /\ last = NoEvent

Init ==
    /\ JobsInit
    /\ artifacts_url \in {None, "s3://bucket/artifacts"}
    /\ IdleMiddleware
    /\ DevInit

Next ==
    \/ Tick /\ UNCHANGED <<fwdVars, routeVars, devVars>>
    \/ \E j \in JobIds, r \in RunAnswers, mt \in MethodTypes :
          create_job(j, r, mt) /\ UNCHANGED <<fwdVars, routeVars, devVars>>
    \/ \E c \in Clients, j \in JobIds : retrieve_job_begin(c, j) /\ UNCHANGED <<fwdVars, routeVars, devVars>>
    \/ \E c \in Clients, r \in AllAnswers : retrieve_job_resume(c, r) /\ UNCHANGED <<fwdVars, routeVars, devVars>>
    \/ \E c \in Clients, j \in JobIds : cancel_job_begin(c, j) /\ UNCHANGED <<fwdVars, routeVars, devVars>>
    \/ \E c \in Clients, r \in CancelAnswers : cancel_job_resume(c, r) /\ UNCHANGED <<fwdVars, routeVars, devVars>>
    \/ \E j \in JobIds : job_daemon_poll(j) /\ UNCHANGED <<fwdVars, routeVars, devVars>>
    \/ \E j \in JobIds, r \in AllAnswers, rnd \in TempNames :
          \E in \in StageInputs(j, r) : job_daemon_resume(j, r, in[1], in[2], rnd)
                                        /\ UNCHANGED <<fwdVars, routeVars, devVars>>
    \/ \E j \in JobIds, ok \in BOOLEAN : job_daemon_loaded(j, ok) /\ UNCHANGED <<fwdVars, routeVars, devVars>>

Spec == Init /\ [][Next]_vars

\* ------------------------------------- the success path (spec section 8) ----
\* A remote runner that runs the job to completion: IN_QUEUE, then RUNNING
\* (dev.py:51) or IN_PROGRESS, then COMPLETED (dev.py:37), which it keeps.
RemoteAdvance(j) ==
    /\ daemon[j].pc # "none"
    /\ \E s \in RemoteStatuses :
          /\ \/ remote[j] = "IN_QUEUE" /\ s \in {"RUNNING", "IN_PROGRESS"}
             \/ remote[j] \in {"RUNNING", "IN_PROGRESS"} /\ s = "COMPLETED"
          /\ remote' = [remote EXCEPT ![j] = s]
    /\ last' = NoEvent
    /\ UNCHANGED <<JOBS, job_read, now, daemon, client, artifacts_url>>

\* Its answers: always 2xx, with its current status.
AnswersOk(rs) == {r \in Answers(rs) : r.code = 200}

LiveInit ==
    /\ JobsInit
    /\ artifacts_url = "s3://bucket/artifacts"
    /\ IdleMiddleware
    /\ DevInit

\* The daemon's steps and the remote's, each with the middleware at rest.
LivePoll(j) == job_daemon_poll(j) /\ UNCHANGED <<fwdVars, routeVars, devVars>>
LiveAnswer(j) ==
    /\ \E r \in AnswersOk(remote[j]) : RemoteAnswerDaemon(j, r)
    /\ UNCHANGED <<fwdVars, routeVars, devVars>>
\* the fetch succeeds
LiveResume(j) ==
    /\ daemon[j].resp # NoResp
    /\ \E sfx \in Suffixes, rnd \in TempNames : job_daemon_resume(j, daemon[j].resp, "ok", sfx, rnd)
    /\ UNCHANGED <<fwdVars, routeVars, devVars>>
\* the load succeeds
LiveLoaded(j) == job_daemon_loaded(j, TRUE) /\ UNCHANGED <<fwdVars, routeVars, devVars>>
LiveRemote(j) == RemoteAdvance(j) /\ UNCHANGED <<fwdVars, routeVars, devVars>>

LiveNext ==
    \/ Tick /\ UNCHANGED <<fwdVars, routeVars, devVars>>
    \/ \E j \in JobIds :
          create_job(j, RunAccepted, "supervised") /\ UNCHANGED <<fwdVars, routeVars, devVars>>
    \/ \E j \in JobIds : LiveRemote(j)
    \/ \E j \in JobIds : LivePoll(j)
    \/ \E j \in JobIds : LiveAnswer(j)
    \/ \E j \in JobIds : LiveResume(j)
    \/ \E j \in JobIds : LiveLoaded(j)
    \/ \E c \in Clients, j \in JobIds : retrieve_job_begin(c, j) /\ UNCHANGED <<fwdVars, routeVars, devVars>>
    \/ \E c \in Clients :
          /\ client[c].pc = "get"
          /\ \E r \in AnswersOk(remote[client[c].job]) : RemoteAnswerClient(c, r)
          /\ UNCHANGED <<fwdVars, routeVars, devVars>>
    \/ \E c \in Clients :
          client[c].resp # NoResp /\ retrieve_job_resume(c, client[c].resp)
          /\ UNCHANGED <<fwdVars, routeVars, devVars>>

\* asyncio runs every task that is ready, a sleep and a local or remote call
\* end, and the remote runs the job to completion; clients need not ask.
SpecLive ==
    /\ LiveInit /\ [][LiveNext]_vars
    /\ \A j \in JobIds :
          /\ WF_vars(LivePoll(j)) /\ WF_vars(LiveAnswer(j)) /\ WF_vars(LiveResume(j))
          /\ WF_vars(LiveLoaded(j)) /\ WF_vars(LiveRemote(j))

\* ------------------------------------------------- the cancellation path ----
\* The remote runner handles POST /cancel/{id} of a client's cancel_job
\* (dev.py:84-95): a job that is queued or running is cancelled, and stays so
\* (dev.py:23-24); any other is refused.
Cancellable == {"IN_QUEUE", "RUNNING", "IN_PROGRESS"}
RemoteCancel(c) ==
    /\ client[c].pc = "cancel"
    /\ client[c].resp = NoResp
    /\ LET j == client[c].job
       IN IF remote[j] \in Cancellable
          THEN /\ remote' = [remote EXCEPT ![j] = "CANCELLED"]
               /\ client' = [client EXCEPT ![c].resp =
                                 [code |-> 200, status |-> "CANCELLED", error |-> FALSE]]
          ELSE /\ client' = [client EXCEPT ![c].resp =
                                 [code |-> 500, status |-> None, error |-> FALSE]]
               /\ UNCHANGED remote
    /\ last' = NoEvent
    /\ UNCHANGED <<JOBS, job_read, now, daemon, artifacts_url>>

CancelNext ==
    \/ LiveNext
    \/ \E c \in Clients, j \in JobIds : cancel_job_begin(c, j) /\ UNCHANGED <<fwdVars, routeVars, devVars>>
    \/ \E c \in Clients : RemoteCancel(c) /\ UNCHANGED <<fwdVars, routeVars, devVars>>
    \/ \E c \in Clients :
          client[c].resp # NoResp /\ cancel_job_resume(c, client[c].resp)
          /\ UNCHANGED <<fwdVars, routeVars, devVars>>

\* asyncio runs the daemon when its sleep or its remote call is over, and the
\* remote answers every poll; nothing obliges clients or the remote's job.
SpecCancel ==
    /\ LiveInit /\ [][CancelNext]_vars
    /\ \A j \in JobIds :
          WF_vars(LivePoll(j)) /\ WF_vars(LiveAnswer(j)) /\ WF_vars(LiveResume(j))

\* ------------------------------------ middlewares.py: _forward_to_app ----
\* The messages the embedded application can hand to send(): response starts
\* (with a status other than the default of middlewares.py:79), body chunks
\* (one of them empty) and a message of another type.
Statuses == {201, 404}
Chunks == {<<>>, <<"a">>}
Messages ==
    {[type |-> "http.response.start", status |-> st, body |-> <<>>] : st \in Statuses}
    \cup {[type |-> "http.response.body", status |-> 0, body |-> b] : b \in Chunks}
    \cup {[type |-> "http.response.trailers", status |-> 0, body |-> <<>>]}

DefaultStatus == 200

\* The replay loop (middlewares.py:77-87) over the first n captured messages:
\* the last start's status, the bodies concatenated.
RECURSIVE Replay(_, _)
Replay(q, n) ==
    IF n = 0 THEN [status_code |-> DefaultStatus, body |-> <<>>]
    ELSE LET acc == Replay(q, n - 1)
             m == q[n]
         IN IF m.type = "http.response.start" THEN [acc EXCEPT !.status_code = m.status]
            ELSE IF m.type = "http.response.body" THEN [acc EXCEPT !.body = acc.body \o m.body]
            ELSE acc

\* What _forward_to_app does once the application has returned
\* (middlewares.py:75-89): the assertion, then the aggregated response.
ForwardResultNoAssert(started, q) ==
    [pc |-> "returned", status_code |-> Replay(q, Len(q)).status_code,
     body |-> Replay(q, Len(q)).body]
ForwardResult(started, q) ==
    IF ~started THEN [pc |-> "AssertionError", status_code |-> 0, body |-> <<>>]
    ELSE [pc |-> "returned", status_code |-> Replay(q, Len(q)).status_code,
          body |-> Replay(q, Len(q)).body]

\* _forward_to_app up to the call of the application (middlewares.py:60-73).
ForwardBegin ==
    /\ fwd.pc = "idle"
    /\ fwd' = [fwd EXCEPT !.pc = "app"]
    /\ send_queue' = <<>>
    /\ response_started' = FALSE
    /\ UNCHANGED <<jobVars, routeVars, devVars>>

\* send(message) (middlewares.py:67-71).
send(message) ==
    /\ fwd.pc = "app"
    /\ Len(send_queue) < MaxEvents
    /\ response_started' = (response_started \/ message.type = "http.response.start")
    /\ send_queue' = Append(send_queue, message)
    /\ UNCHANGED <<fwd, jobVars, routeVars, devVars>>

\* await app(scope, receive, send) returns (middlewares.py:73-89).
AppReturns ==
    /\ fwd.pc = "app"
    /\ fwd' = ForwardResult(response_started, send_queue)
    /\ UNCHANGED <<send_queue, response_started, jobVars, routeVars, devVars>>

ForwardInit ==
    /\ JobsInit
    /\ artifacts_url = None
    /\ IdleMiddleware
    /\ DevInit

ForwardNext ==
    \/ ForwardBegin
    \/ \E m \in Messages : send(m)
    \/ AppReturns

SpecForward == ForwardInit /\ [][ForwardNext]_vars

\* -------------------------------------- middlewares.py: resolve_route ----
\* A nested route table is a sequence of routes; route i sits in the table of
\* route parent (0: app.router.routes), in index order.  match is what
\* route.matches answers for the request's own scope; sub says that
\* route.app.router.routes exists (middlewares.py:36-38).
Matches == {"NONE", "PARTIAL", "FULL"}

RECURSIVE Tables(_)
Tables(n) ==
    IF n = 0 THEN {<<>>}
    ELSE LET shorter == Tables(n - 1)
         IN shorter \cup
            UNION {{Append(t, [parent |-> p, match |-> m, sub |-> s]) :
                        p \in {0} \cup {i \in DOMAIN t : t[i].sub},
                        m \in Matches, s \in BOOLEAN} :
                   t \in {u \in shorter : Len(u) = n - 1}}

\* The scope built from the request (middlewares.py:24-26) and the child scope
\* a route's matches() hands back: the endpoint and the path parameters, without
\* the request's type, path and method.
RequestScope == {"type", "path", "method"}
ChildScope == {"endpoint", "path_params"}

\* route.matches(sc) (middlewares.py:32): the framework's routes read
\* sc["type"] first, which a child scope does not have.
matches(route, sc) ==
    IF "type" \notin sc THEN "KeyError" ELSE route.match

\* One pass of the for body (middlewares.py:32-39).
RouteStep(m, sub) ==
    IF m = "KeyError" THEN "raise"
    ELSE IF m = "FULL" THEN "return"
    ELSE IF m = "PARTIAL" /\ sub THEN "push"
    ELSE "skip"

RouteMin(S) == CHOOSE i \in S : \A k \in S : i <= k

\* The while loop over the stack and the for loop over one table
\* (middlewares.py:28-41); cur is the popped (routes, sc) pair and pos the
\* last route of it already visited.
RECURSIVE WhileStack(_, _)
RECURSIVE ForRoutes(_, _, _, _)
WhileStack(rs, stk) ==
    IF stk = <<>> THEN NoRoute
    ELSE ForRoutes(rs, SubSeq(stk, 1, Len(stk) - 1), stk[Len(stk)], 0)
ForRoutes(rs, stk, cur, pos) ==
    LET rest == {i \in DOMAIN rs : i > pos /\ rs[i].parent = cur.table}
    IN IF rest = {} THEN WhileStack(rs, stk)
       ELSE LET k == RouteMin(rest)
                step == RouteStep(matches(rs[k], cur.sc), rs[k].sub)
            IN CASE step = "raise" -> RaisedKeyError
                 [] step = "return" -> k
                 [] step = "push" ->
                      ForRoutes(rs, Append(stk, [table |-> k, sc |-> ChildScope]), cur, k)
                 [] OTHER -> ForRoutes(rs, stk, cur, k)

resolve_route(rs) == WhileStack(rs, <<[table |-> 0, sc |-> RequestScope]>>)

\* One call of resolve_route on the table.
ResolveCall ==
    /\ found = NotCalled
    /\ found' = resolve_route(routes)
    /\ UNCHANGED <<routes, mw, jobVars, fwdVars, devVars>>

RouteInit ==
    /\ JobsInit
    /\ artifacts_url = None
    /\ send_queue = <<>>
    /\ response_started = FALSE
    /\ fwd = [pc |-> "idle", status_code |-> 0, body |-> <<>>]
    /\ routes \in Tables(MaxRoutes)
    /\ found = NotCalled
    /\ mw = IdleDispatch
    /\ DevInit

RouteNext == ResolveCall

SpecRoute == RouteInit /\ [][RouteNext]_vars

\* ------------------------------------------- middlewares.py: dispatch ----
\* dispatch up to its first await (middlewares.py:54-57, 60-73): the lookup,
\* then either _forward_to_app up to the call of the embedded application or
\* the call of call_next; a lookup that raises ends dispatch with neither.
dispatch ==
    /\ mw.pc = "idle"
    /\ fwd.pc = "idle"
    /\ found' = resolve_route(routes)
    /\ IF found' = RaisedKeyError
       THEN /\ mw' = [mw EXCEPT !.pc = "KeyError"]
            /\ UNCHANGED fwdVars
       ELSE IF found' # NoRoute
       THEN /\ mw' = [mw EXCEPT !.pc = "forward", !.app = @ + 1]
            /\ fwd' = [fwd EXCEPT !.pc = "app"]
            /\ send_queue' = <<>>
            /\ response_started' = FALSE
       ELSE /\ mw' = [mw EXCEPT !.pc = "call_next", !.call_next = @ + 1]
            /\ UNCHANGED fwdVars
    /\ UNCHANGED <<routes, jobVars, devVars>>

\* The embedded application answers: response starts only, as many as it likes.
DispatchMessages == {m \in Messages : m.type = "http.response.start" /\ m.status = 201}

\* return await self._forward_to_app(request) (middlewares.py:56): the response
\* or the AssertionError of _forward_to_app is dispatch's own.
dispatch_forwarded ==
    /\ mw.pc = "forward"
    /\ fwd.pc \in {"returned", "AssertionError"}
    /\ mw' = [mw EXCEPT !.pc = IF fwd.pc = "returned" THEN "done" ELSE "AssertionError"]
    /\ UNCHANGED <<routes, found, jobVars, fwdVars, devVars>>

\* return await call_next(request) (middlewares.py:57).
dispatch_passed ==
    /\ mw.pc = "call_next"
    /\ mw' = [mw EXCEPT !.pc = "done"]
    /\ UNCHANGED <<routes, found, jobVars, fwdVars, devVars>>

DispatchInit == RouteInit

DispatchNext ==
    \/ dispatch
    \/ \E m \in DispatchMessages : send(m)
    \/ AppReturns
    \/ dispatch_forwarded
    \/ dispatch_passed

SpecDispatch == DispatchInit /\ [][DispatchNext]_vars

\* ------------------------------------------- dev.py: the bundled runner ----
\* A task is at its start (its first step is queued), suspended on the lock's
\* waiter future (lock), suspended on the future of asyncio.to_thread while it
\* holds the lock (thread), or done; fut is the state of the future it is
\* suspended on, must_cancel the cancellation asyncio delivers at its next step.
Handle(kind, i) == [kind |-> kind, id |-> i]
TaskDone(outcome) == [pc |-> "done", must_cancel |-> FALSE, fut |-> None, outcome |-> outcome]
Suspended(pc) == [pc |-> pc, must_cancel |-> FALSE, fut |-> "pending", outcome |-> None]

Remove(seq, i) == SelectSeq(seq, LAMBDA x : x # i)

\* asyncio.Lock._wake_up_first: the first waiter, if its future is not done.
WakeUpFirst(waiters, tasks) ==
    IF waiters # <<>> /\ tasks[waiters[1]].fut = "pending" THEN waiters[1] ELSE 0
Woken(tasks, w) == IF w = 0 THEN tasks ELSE [tasks EXCEPT ![w].fut = "result"]
WakeUp(w) == IF w = 0 THEN <<>> ELSE <<Handle("step", w)>>

\* asyncio.Lock.acquire takes the lock at once if it is free and no waiter
\* that is not cancelled stands before.
LockFree ==
    /\ ~JOB_QUEUE_LOCK.locked
    /\ \A k \in DOMAIN JOB_QUEUE_LOCK.waiters :
          task[JOB_QUEUE_LOCK.waiters[k]].fut = "cancelled"

\* The statuses in which the runner accepts a cancel (dev.py:89).
DevCancellable == {"IN_QUEUE", "RUNNING"}

\* POST /run (dev.py:55-73): a new id, the job queued, its task created (the
\* first step of the task is queued on the loop), the done-callback added.
dev_create_job(i) ==
    /\ dev_JOBS[i] = "absent"
    /\ \A k \in DevIds : k < i => dev_JOBS[k] # "absent"
    /\ dev_JOBS' = [dev_JOBS EXCEPT ![i] = "IN_QUEUE"]
    /\ task' = [task EXCEPT ![i] = [NoTask EXCEPT !.pc = "start"]]
    /\ JOB_TASKS' = JOB_TASKS \cup {i}
    /\ ready' = Append(ready, Handle("step", i))
    /\ UNCHANGED JOB_QUEUE_LOCK

\* POST /cancel/{id} accepted (dev.py:84-95): task.cancel() cancels the future
\* the task is suspended on and queues the task's step, or, when there is no
\* pending future, marks the task for cancellation at its next step; it does
\* nothing to a task that is done.
dev_cancel_job(i) ==
    /\ dev_JOBS[i] \in DevCancellable
    /\ i \in JOB_TASKS
    /\ task[i].pc # "done"
    /\ IF task[i].pc \in {"lock", "thread"} /\ task[i].fut = "pending"
       THEN /\ task' = [task EXCEPT ![i].fut = "cancelled"]
            /\ ready' = Append(ready, Handle("step", i))
       ELSE /\ task' = [task EXCEPT ![i].must_cancel = TRUE]
            /\ UNCHANGED ready
    /\ UNCHANGED <<dev_JOBS, JOB_TASKS, JOB_QUEUE_LOCK>>

\* The thread of asyncio.to_thread(handler, event) ends, with a result or with
\* an exception of handler (dev.py:63-67): the task's step is queued.
thread_done(i, ok) ==
    /\ task[i].pc = "thread"
    /\ task[i].fut = "pending"
    /\ task' = [task EXCEPT ![i].fut = IF ok THEN "result" ELSE "exception"]
    /\ ready' = Append(ready, Handle("step", i))
    /\ UNCHANGED <<dev_JOBS, JOB_TASKS, JOB_QUEUE_LOCK>>

\* One step of the task of queue_task(job_id, coro) (dev.py:49-52), run by the
\* loop: from the start or from the lock's waiter future into the lock and on
\* to the await of coro; from the await of coro out of the lock, which wakes the
\* first waiter, to the end of the task, whose done-callback is queued behind
\* that wake-up; a cancelled step raises CancelledError where the task stands.
queue_task(i) ==
    LET t == task[i]
        cancelled == t.must_cancel \/ t.fut = "cancelled"
        waiters == JOB_QUEUE_LOCK.waiters
        rest == Tail(ready)
    IN CASE t.pc = "start" /\ cancelled ->
              /\ task' = [task EXCEPT ![i] = TaskDone("cancelled")]
              /\ ready' = Append(rest, Handle("done", i))
              /\ UNCHANGED <<dev_JOBS, JOB_QUEUE_LOCK>>
         [] t.pc = "start" /\ ~cancelled /\ LockFree ->
              /\ JOB_QUEUE_LOCK' = [JOB_QUEUE_LOCK EXCEPT !.locked = TRUE]
              /\ dev_JOBS' = [dev_JOBS EXCEPT ![i] = "RUNNING"]
              /\ task' = [task EXCEPT ![i] = Suspended("thread")]
              /\ ready' = rest
         [] t.pc = "start" /\ ~cancelled /\ ~LockFree ->
              /\ JOB_QUEUE_LOCK' = [JOB_QUEUE_LOCK EXCEPT !.waiters = Append(waiters, i)]
              /\ task' = [task EXCEPT ![i] = Suspended("lock")]
              /\ ready' = rest
              /\ UNCHANGED dev_JOBS
         [] t.pc = "lock" /\ cancelled ->
              LET left == Remove(waiters, i)
                  w == IF JOB_QUEUE_LOCK.locked THEN 0 ELSE WakeUpFirst(left, task)
              IN /\ JOB_QUEUE_LOCK' = [JOB_QUEUE_LOCK EXCEPT !.waiters = left]
                 /\ task' = Woken([task EXCEPT ![i] = TaskDone("cancelled")], w)
                 /\ ready' = (rest \o WakeUp(w)) \o <<Handle("done", i)>>
                 /\ UNCHANGED dev_JOBS
         [] t.pc = "lock" /\ ~cancelled ->
              /\ JOB_QUEUE_LOCK' = [locked |-> TRUE, waiters |-> Remove(waiters, i)]
              /\ dev_JOBS' = [dev_JOBS EXCEPT ![i] = "RUNNING"]
              /\ task' = [task EXCEPT ![i] = Suspended("thread")]
              /\ ready' = rest
         [] t.pc = "thread" ->
              LET w == WakeUpFirst(waiters, task)
                  outcome == IF cancelled THEN "cancelled"
                             ELSE IF t.fut = "exception" THEN "exception" ELSE "result"
              IN /\ JOB_QUEUE_LOCK' = [JOB_QUEUE_LOCK EXCEPT !.locked = FALSE]
                 /\ task' = Woken([task EXCEPT ![i] = TaskDone(outcome)], w)
                 /\ ready' = (rest \o WakeUp(w)) \o <<Handle("done", i)>>
                 /\ UNCHANGED dev_JOBS

\* The done-callback (dev.py:21-41).  task.exception() is its first call, and
\* on a cancelled task it raises CancelledError: the callback ends there.
task_done_callback_wrapper(i) ==
    /\ ready' = Tail(ready)
    /\ IF task[i].outcome = "cancelled"
       THEN UNCHANGED <<dev_JOBS, JOB_TASKS>>
       ELSE /\ dev_JOBS' = [dev_JOBS EXCEPT ![i] =
                              IF task[i].outcome = "exception" THEN "FAILED" ELSE "COMPLETED"]
            /\ JOB_TASKS' = JOB_TASKS \ {i}
    /\ UNCHANGED <<task, JOB_QUEUE_LOCK>>

\* The loop runs the callback at the head of its queue.
LoopStep ==
    /\ ready # <<>>
    /\ IF Head(ready).kind = "step"
       THEN queue_task(Head(ready).id) /\ UNCHANGED JOB_TASKS
       ELSE task_done_callback_wrapper(Head(ready).id)

DevSpecInit ==
    /\ JobsInit
    /\ artifacts_url = None
    /\ IdleMiddleware
    /\ DevInit

DevSubmit(i) == dev_create_job(i) /\ UNCHANGED <<jobVars, fwdVars, routeVars>>
DevCancel(i) == dev_cancel_job(i) /\ UNCHANGED <<jobVars, fwdVars, routeVars>>
DevThread(i) ==
    /\ \E ok \in BOOLEAN : thread_done(i, ok)
    /\ UNCHANGED <<jobVars, fwdVars, routeVars>>
DevLoop == LoopStep /\ UNCHANGED <<jobVars, fwdVars, routeVars>>

DevNext ==
    \/ \E i \in DevIds : DevSubmit(i)
    \/ \E i \in DevIds : DevCancel(i)
    \/ \E i \in DevIds : DevThread(i)
    \/ DevLoop

\* The loop runs what is ready, and handler ends; nothing obliges clients.
SpecDev ==
    /\ DevSpecInit /\ [][DevNext]_vars
    /\ WF_vars(DevLoop)
    /\ \A i \in DevIds : WF_vars(DevThread(i))

\* ================================================================ claims ====
Rank(st) == IF st = "queued" THEN 0 ELSE IF st = "running" THEN 1 ELSE 2

\* The mapping of the remote vocabulary as documented (with RUNNING).
DocumentedMap ==
    [s \in DOMAIN STATUS_MAP \cup {"RUNNING"} |->
        IF s = "RUNNING" THEN "running" ELSE STATUS_MAP[s]]

\* A retrieve_job (of a client GET or of the daemon) resumed in this step.
Resumed == last'.op \in {"get", "poll"} /\ last'.polled # None

\* C1: the recorded status of a stored job only moves forward in
\* queued -> running -> {succeeded, failed, cancelled}, and a terminal status
\* never changes again, whatever the remote reports.
C1_StatusMonotonic ==
    [][\A j \in JOBS \cap JOBS' :
          /\ Rank(job_read[j].status) <= Rank(job_read'[j].status)
          /\ job_read[j].status \in Terminal => job_read'[j].status = job_read[j].status]_vars

\* C2: finished_at is written once: after it was set, no later retrieve_job
\* changes it.
C2_FinishedAtWrittenOnce ==
    [][\A j \in JOBS \cap JOBS' :
          job_read[j].finished_at # NoTime => job_read'[j].finished_at = job_read[j].finished_at]_vars

\* C3: a retrieve_job (client GET or daemon poll) that resumes on RUNNING, a
\* status of the documented domain, with the record stored, does not fail and
\* records the job as running.
C3_MapperTotalOnDocumentedDomain ==
    [][(Resumed /\ last'.polled = "RUNNING" /\ last'.job \in JOBS)
       => /\ last'.result = "job"
          /\ job_read'[last'.job].status = DocumentedMap[last'.polled]]_vars

\* C4: a retrieve_job that resumes on a status string outside the documented
\* domain ends in an error (which the daemon does not survive) and leaves the
\* job store and every job's status, finished_at and error as they were.
C4_UnknownStatusFailsClosed ==
    [][(Resumed /\ last'.polled \in RemoteStatuses \ DOMAIN DocumentedMap)
       => /\ last'.result \in {"KeyError:STATUS_MAP", "KeyError:JOBS"}
          /\ last'.op = "poll" => daemon'[last'.job].pc = "crashed"
          /\ JOBS' = JOBS /\ job_read' = job_read]_vars

\* C4 witness: a GET of a stored, already running job ended in the KeyError of
\* an unknown status.
C4_Witness ==
    /\ last.op = "get" /\ last.result = "KeyError:STATUS_MAP" /\ last.polled = "BOGUS"
    /\ last.job \in JOBS /\ job_read[last.job].status = "running"

\* C5: a 404 answer to a poll removes the record and the request ends with
\* NotFound; the daemon that saw it (or that finds the record gone) has
\* stopped for good, with no further poll and no artifact stage; a removed
\* record stays removed, so it is not listed, and every GET or cancel begun
\* afterwards ends at once with NotFound, before any remote call.
C5_RemoteNotFoundRemoves ==
    [][/\ (Resumed /\ last'.polled = "404")
          => /\ last'.job \notin JOBS' /\ last'.result = "NotFound"
             /\ last'.op = "poll" => daemon'[last'.job].pc = "stopped"
       /\ \A j \in JobIds :
            /\ daemon[j].pc = "stopped" => daemon'[j] = daemon[j]
            /\ (daemon[j].pc # "none" /\ j \notin JOBS)
               => /\ j \notin JOBS' /\ j \notin list_jobs'
                  /\ \A c \in Clients :
                       client[c].pc = "idle" => ~(client'[c].pc # "idle" /\ client'[c].job = j)
                  /\ (last'.op \in {"get", "cancel"} /\ last'.job = j /\ client' = client)
                     => last'.result = "NotFound"]_vars

\* C5 witness: the daemon stopped on a 404, the record is gone, and a later
\* GET for the job got NotFound without a remote call.
C5_Witness ==
    \E j \in JobIds :
        /\ daemon[j].pc = "stopped" /\ daemon[j].failed = "NotFound" /\ j \notin JOBS
        /\ last = Ended("get", j, None, "NotFound")

\* The model identifiers the daemon can derive for a job.
DerivedNames == {ModelName(TempBase(sfx, rnd)) : sfx \in Suffixes, rnd \in TempNames}

\* C6: on the success path (every poll 2xx with a documented status, the
\* remote reaching and keeping COMPLETED, fetch and load succeeding, an
\* artifacts location configured) a job that create_job has just accepted
\* eventually is succeeded with fine_tuned_model the derived identifier.
C6_SuccessPathLive ==
    \A j \in JobIds :
        (last.op = "create" /\ last.job = j /\ last.result = "job")
        ~> (/\ j \in JOBS /\ job_read[j].status = "succeeded"
            /\ job_read[j].fine_tuned_model \in DerivedNames)

\* C7: a step in which the artifact stage fails (record lookup, mkdtemp,
\* fetch, load) ends no request, changes no stored key and no error field,
\* and leaves the status succeeded that the stage was entered with.
C7_ArtifactFailureIsolated ==
    [][\A j \in JobIds :
          (daemon'[j].pc = "artifact_error" /\ daemon[j].pc # "artifact_error")
          => /\ client' = client
             /\ last'.op \notin {"create", "get", "cancel"}
             /\ JOBS' = JOBS
             /\ job_read'[j].error = job_read[j].error
             /\ job_read'[j].status =
                   IF daemon[j].pc = "poll" THEN "succeeded" ELSE job_read[j].status]_vars

\* C7 witness: the fetch failed and the stored job is succeeded with no error.
C7_Witness ==
    \E j \in JOBS :
        /\ daemon[j].pc = "artifact_error" /\ daemon[j].failed = "download"
        /\ job_read[j].status = "succeeded" /\ job_read[j].error = None

\* C8 (as claimed): fine_tuned_model is non-null only once the load-adapter
\* call has completed successfully.
C8_ModelOnlyAfterLoad ==
    \A j \in JobIds :
        job_read[j].fine_tuned_model # NoModel => daemon[j].pc = "loaded"

\* C8 (amended): fine_tuned_model is non-null only once the artifact fetch has
\* completed successfully (it is recorded before the load call is made, and
\* stays when the load fails), and once assigned it never changes.
C8_ModelOnlyAfterFetch ==
    /\ [](\A j \in JobIds :
            job_read[j].fine_tuned_model # NoModel
            => \/ daemon[j].pc \in {"load", "loaded"}
               \/ daemon[j].pc = "artifact_error" /\ daemon[j].failed = "load")
    /\ [][\A j \in JobIds :
            job_read[j].fine_tuned_model # NoModel
            => job_read'[j].fine_tuned_model = job_read[j].fine_tuned_model]_vars

\* C8 witness: the load call failed and the job carries the model name.
C8_Witness ==
    \E j \in JOBS :
        /\ daemon[j].pc = "artifact_error" /\ daemon[j].failed = "load"
        /\ job_read[j].fine_tuned_model # NoModel

\* No response-start event among the captured messages.
NoStart(q) == \A i \in DOMAIN q : q[i].type # "http.response.start"

\* C9: when the embedded application has returned without emitting a
\* response-start event (nothing at all, or body and other events only),
\* _forward_to_app has failed on its assertion and returned no response, in
\* particular none with the default status 200.
C9_NoStartIsProtocolViolation ==
    (fwd.pc \notin {"idle", "app"} /\ NoStart(send_queue))
    => /\ fwd.pc = "AssertionError"
       /\ fwd.status_code # DefaultStatus

\* C9 witness: the application emitted body events only, and the forwarding
\* failed.
C9_Witness ==
    /\ fwd.pc = "AssertionError"
    /\ Len(send_queue) >= 2
    /\ \A i \in DOMAIN send_queue : send_queue[i].type = "http.response.body"

\* A route is reachable when it sits in the top-level table or in the sub-table
\* of a reachable, partially matching route.
RECURSIVE Reachable(_, _)
Reachable(rs, i) ==
    \/ rs[i].parent = 0
    \/ /\ rs[rs[i].parent].match = "PARTIAL"
       /\ rs[rs[i].parent].sub
       /\ Reachable(rs, rs[i].parent)

FullReachable(rs) == {i \in DOMAIN rs : rs[i].match = "FULL" /\ Reachable(rs, i)}

\* C10: once resolve_route has ended, it has returned a reachable full match
\* whenever one exists (at any depth, not stopping at a partial match), and it
\* has returned None only when no full match is reachable.
C10_DeepFullMatchFound ==
    found # NotCalled
    => /\ FullReachable(routes) # {} => found \in FullReachable(routes)
       /\ found = NoRoute => FullReachable(routes) = {}

NonSuccess == {r \in RunAnswers : r.code < 200 \/ r.code > 299}

\* C12: a create_job that the remote answered with a non-2xx status ends in an
\* error carrying that status code and body, inserts no record and spawns no
\* daemon; a stored record and a daemon exist only after an accepted submission.
C12_RejectedSubmissionLeavesNoJob ==
    [][/\ \A j \in JobIds, r \in NonSuccess, mt \in MethodTypes :
            (ENABLED create_job(j, r, mt) /\ create_job(j, r, mt))
            => /\ last'.result = "HTTPError"
               /\ last'.status_code = r.code /\ last'.detail = r.text
               /\ JOBS' = JOBS /\ job_read' = job_read /\ daemon' = daemon
       /\ \A j \in JobIds :
            (j \in JOBS' \ JOBS \/ (daemon[j].pc = "none" /\ daemon'[j].pc # "none"))
            => last'.op = "create" /\ last'.job = j /\ last'.result = "job"]_vars

\* C13: a create_job whose submission names a method type that is not
\* configured ends with an UnsupportedMethod error, whatever the remote would
\* answer: the remote is not given the job, no record is stored and no daemon
\* is spawned.
C13_UnknownMethodRejected ==
    [][(last'.op = "create" /\ last' # last /\ last'.method \notin ConfiguredMethods)
       => /\ last'.result = "UnsupportedMethod"
          /\ remote' = remote
          /\ JOBS' = JOBS /\ job_read' = job_read /\ daemon' = daemon]_vars

\* C14: the daemon poll that resumes on a non-2xx answer other than 404 is
\* the daemon's last step: the task has ended, so it polls no more and never
\* enters the artifact stage, on the first poll as after successful ones.
C14_PollFailureStopsDaemon ==
    [][\A j \in JobIds :
          (daemon[j].pc = "poll" /\ last'.op = "poll" /\ last'.job = j /\ last'.polled = "500")
          => daemon'[j].pc \in {"stopped", "crashed"}]_vars

\* The positions of the daemon inside and behind the artifact pipeline.
InPipeline == {"load", "loaded", "artifact_error"}

\* C15: the daemon enters the artifact pipeline only in the step in which its
\* own poll returned the job with the mapped status succeeded, with an
\* artifacts location configured; having entered it, it never enters it again;
\* a daemon whose poll returned failed or cancelled stops, and a daemon that
\* has stopped stays so.
C15_PipelineOnceOnSuccessOnly ==
    [][\A j \in JobIds :
          /\ (daemon'[j].pc \in InPipeline /\ daemon[j].pc \notin InPipeline)
             => /\ daemon[j].pc = "poll" /\ artifacts_url # None
                /\ last'.op = "poll" /\ last'.job = j /\ last'.result = "job"
                /\ job_read'[j].status = "succeeded"
          /\ daemon[j].pc \in InPipeline
             => daemon'[j].pc \in (IF daemon[j].pc = "load" THEN InPipeline ELSE {daemon[j].pc})
          /\ (daemon[j].pc = "poll" /\ last'.op = "poll" /\ last'.job = j /\ last'.result = "job"
              /\ job_read'[j].status \in {"failed", "cancelled"})
             => daemon'[j].pc = "stopped"
          /\ daemon[j].pc \in {"stopped", "crashed"} => daemon'[j] = daemon[j]]_vars

\* C16: a step of cancel_job (up to its remote call, or from the remote's
\* answer on, accepted or rejected) changes no record, not the set of stored
\* jobs and no daemon; the recorded status becomes cancelled only in a step in
\* which a poll (retrieve_job, of a client or of the daemon) returned the job.
C16_CancelOnlyForwards ==
    [][/\ (\/ last'.op = "cancel"
           \/ \E c \in Clients :
                 client'[c] # client[c] /\ "cancel" \in {client[c].pc, client'[c].pc})
          => /\ JOBS' = JOBS /\ job_read' = job_read /\ daemon' = daemon
       /\ \A j \in JobIds :
            (job_read'[j].status = "cancelled" /\ job_read[j].status # "cancelled")
            => Resumed /\ last'.job = j /\ last'.result = "job"]_vars

\* C16 witness: the remote accepted the cancel of a stored, running job; the
\* record is still running and its daemon still waits for its next poll.
C16_Witness ==
    /\ last.op = "cancel" /\ last.result = "job" /\ last.polled = "200"
    /\ last.job \in JOBS /\ job_read[last.job].status = "running"
    /\ daemon[last.job].pc = "sleep"

\* C17: once the remote reports CANCELLED for a job (and it keeps doing so)
\* while the job's daemon waits for its next poll, the daemon eventually stops,
\* with the status cancelled recorded and outside the artifact pipeline; the
\* poll that resumes on CANCELLED is its last step, and a stopped daemon polls
\* no more.
C17_CancelledStopsDaemon ==
    /\ \A j \in JobIds :
          (remote[j] = "CANCELLED" /\ daemon[j].pc = "sleep")
          ~> (daemon[j].pc = "stopped" /\ daemon[j].failed = None
              /\ job_read[j].status = "cancelled")
    /\ [][\A j \in JobIds :
            /\ (daemon[j].pc = "poll" /\ daemon[j].resp.status = "CANCELLED"
                /\ daemon'[j] # daemon[j])
               => daemon'[j].pc = "stopped" /\ job_read'[j].status = "cancelled"
            /\ daemon[j].pc = "stopped" => daemon'[j] = daemon[j]]_vars

\* C17 witness: a client's cancel was accepted, and the daemon's next poll
\* found CANCELLED and stopped.
C17_Witness ==
    \E j \in JOBS :
        /\ remote[j] = "CANCELLED" /\ daemon[j].pc = "stopped"
        /\ job_read[j].status = "cancelled" /\ job_read[j].fine_tuned_model = NoModel
        /\ last.op = "poll" /\ last.job = j /\ last.result = "job"

\* C18: with a remote whose status of a job only advances, and a client GET
\* and the daemon's poll of the job both suspended on their remote calls and
\* resumed in either order, no resumption that returns the job moves the
\* recorded status backwards.
C18_NoRegressionUnderInterleaving ==
    [][\A j \in JobIds :
          (Resumed /\ last'.job = j /\ last'.result = "job")
          => Rank(job_read[j].status) <= Rank(job_read'[j].status)]_vars

\* C19: a retrieve_job or cancel_job that resumes from its remote call after
\* the job's record was removed ends with NotFound (a 404), whatever its own
\* remote answer is.
C19_RemovedWhileSuspendedIsNotFound ==
    [][\A c \in Clients :
          (client[c].pc \in {"get", "cancel"} /\ client[c].job \notin JOBS
           /\ client'[c].pc = "idle")
          => \/ last'.result = "NotFound"
             \/ last'.result = "HTTPError" /\ last'.polled = "404"]_vars

\* A captured sequence of the shape AwaitingStart -> Body* -> Done: exactly one
\* response-start event, and no body event before it.
StartsOf(q) == {i \in DOMAIN q : q[i].type = "http.response.start"}
WellFormed(q) ==
    /\ Cardinality(StartsOf(q)) = 1
    /\ \A i \in DOMAIN q, s \in StartsOf(q) : q[i].type = "http.response.body" => s < i

\* C20: _forward_to_app has returned an aggregated response only for a
\* captured sequence with exactly one response-start event that precedes every
\* body event.
C20_ResponseOnlyForWellFormedSequence ==
    fwd.pc = "returned" => WellFormed(send_queue)

\* C21: at most one job of the runner's job table has the status RUNNING.
C21_AtMostOneRunning ==
    Cardinality({i \in DevIds : dev_JOBS[i] = "RUNNING"}) <= 1

\* The cancellation of the job's task has been asked for, or has happened.
TaskCancelled(i) ==
    task[i].must_cancel \/ task[i].fut = "cancelled" \/ task[i].outcome = "cancelled"

\* C22: a job that was IN_QUEUE or RUNNING when its cancel was accepted
\* eventually has the status CANCELLED and no entry in JOB_TASKS.
C22_CancelledEventually ==
    \A i \in DevIds :
        (dev_JOBS[i] \in DevCancellable /\ TaskCancelled(i))
        ~> (dev_JOBS[i] = "CANCELLED" /\ i \notin JOB_TASKS)

====
